---- MODULE Spec2Model ----
(***************************************************************************)
(* The discrete-event simulation engine of torii (src/torii/sim/pysim.py): *)
(* the timeline, the signal slots, the simulation state, the engine's      *)
(* delta-cycle loop and the value-change recorder.                         *)
(*                                                                         *)
(* Every iteration over a Python set or dict (the process set, the pending *)
(* set, the wait table, the changed set) is modelled in every order: the   *)
(* operators that model a loop return the SET of the outcomes of all       *)
(* iteration orders.                                                       *)
(***************************************************************************)
EXTENDS Integers, Sequences, FiniteSets, TLC

\* ------------------------------------------------------------------ bounds
NSig == 3
MaxProcs == 3
MaxAdvance == 3
MaxIters == 8
MaxWriters == 1

Sigs == 1..NSig
Values == 0..1
ProcIds == 1..MaxProcs

\* Python's None (a trigger of None, a deadline of None).
None == 0 - 1

\* ------------------------------------------------------------------ helpers
Put(f, k, v) == [x \in DOMAIN f \cup {k} |-> IF x = k THEN v ELSE f[x]]
Drop(f, S) == [x \in DOMAIN f \ S |-> f[x]]
BagAdd(b, S) ==
    [k \in DOMAIN b \cup S |->
        (IF k \in DOMAIN b THEN b[k] ELSE 0) + (IF k \in S THEN 1 ELSE 0)]
CurrOf(W) == [i \in 1..Len(W.slots) |-> W.slots[i].curr]

VARIABLES
    signalReset,   \* Signal.reset of every signal of the design
    fragment,      \* the signals the fragment's statements name
    now,           \* _Timeline.now
    deadlines,     \* _Timeline.deadlines: process -> deadline
    signals,       \* _PySimulation.signals: signal -> slot index
    slots,         \* _PySimulation.slots: sequence of slot records
    pending,       \* _PySimulation.pending: set of slot indices
    procs,         \* PySimEngine._processes: process id -> process record
    vcd_writers,   \* PySimEngine._vcd_writers
    err,           \* an assertion of the code failed (the exception reached the caller)
    hung,          \* the delta-cycle loop of a step did not converge within MaxIters
    ret,           \* what the last advance() returned (None before the first)
    lastStep,      \* what the last _step did: its commits, eval observations and records
    nAdvance,      \* number of advance() calls so far (bounds the run)
    lastOp,        \* the operation that led to this state
    design,        \* the fragment hierarchy handed to the recorder's name extractor
    signalName,    \* Signal.name of every signal of the design
    files,         \* the log and view files of the recording scopes: handle -> file
    raised,        \* the exception the last recorder operation raised ("None" if none)
    nScopes,       \* number of write_vcd calls so far (bounds the run)
    lastSetup,     \* the arguments and the outcome of the last write_vcd call
    plans          \* the BuildPlan objects compared by their digests

\* The variables of the engine, of the recorder's setup and of the build plans.
engineVars == <<signalReset, fragment, now, deadlines, signals, slots,
                pending, procs, vcd_writers, err, hung, ret, lastStep, nAdvance, lastOp>>
recorderVars == <<design, signalName, files, raised, nScopes, lastSetup>>
planVars == <<plans>>
vars == <<engineVars, recorderVars, planVars>>

\* The simulation's mutable state as one value, as the operators pass it on.
\* diverged, iter, phaseStart, obs, wakes, commits and settled are bookkeeping
\* of the running step (what it did), not state of the program.
World ==
    [now |-> now, deadlines |-> deadlines, signals |-> signals, slots |-> slots,
     pending |-> pending, procs |-> procs, err |-> err,
     diverged |-> FALSE, iter |-> 0, phaseStart |-> <<>>, obs |-> {},
     wakes |-> <<>>, commits |-> <<>>, settled |-> {}]

\* ------------------------------------------------------------------ _Timeline
\* Mutant of TimelineReset: the wait table is not cleared.
TimelineResetNow(W) == [W EXCEPT !.now = 0]

TimelineReset(W) == [W EXCEPT !.now = 0, !.deadlines = <<>>]

TimelineAt(W, run_at, process) ==
    IF process \in DOMAIN W.deadlines
    THEN [W EXCEPT !.err = TRUE]
    ELSE [W EXCEPT !.deadlines = Put(@, process, run_at)]

\* Mutant of TimelineDelay: a zero-delay wait is stored as the None sentinel.
TimelineDelaySentinel(W, delay_by, process) ==
    LET run_at == IF delay_by = None THEN None ELSE W.now + delay_by
        L == IF delay_by = None THEN [W EXCEPT !.settled = @ \cup {process}] ELSE W
    IN  TimelineAt(L, run_at, process)

\* settled is bookkeeping: the processes that asked for a zero-delay wait.
TimelineDelay(W, delay_by, process) ==
    LET run_at == IF delay_by = None THEN W.now ELSE W.now + delay_by
        L == IF delay_by = None THEN [W EXCEPT !.settled = @ \cup {process}] ELSE W
    IN  TimelineAt(L, run_at, process)

\* Mutant of AdvanceScan: `deadline < nearest_deadline` for `<=`, so that of
\* several processes with the same deadline only the first one found is taken.
RECURSIVE AdvanceScanStrict(_, _, _, _)
AdvanceScanStrict(W, todo, np, nd) ==
    IF todo = {} THEN {[np |-> np, nd |-> nd, err |-> FALSE]}
    ELSE UNION {
        LET deadline == W.deadlines[p] IN
        IF deadline = None
        THEN {[np |-> {p}, nd |-> W.now, err |-> FALSE]}
        ELSE IF nd = None \/ deadline < nd
        THEN IF deadline < W.now
             THEN {[np |-> np, nd |-> nd, err |-> TRUE]}
             ELSE AdvanceScanStrict(W, todo \ {p}, {p}, deadline)
        ELSE AdvanceScanStrict(W, todo \ {p}, np, nd)
        : p \in todo }

\* Mutant of AdvanceScan: without `assert deadline >= self.now`.
RECURSIVE AdvanceScanUnchecked(_, _, _, _)
AdvanceScanUnchecked(W, todo, np, nd) ==
    IF todo = {} THEN {[np |-> np, nd |-> nd, err |-> FALSE]}
    ELSE UNION {
        LET deadline == W.deadlines[p] IN
        IF deadline = None
        THEN {[np |-> {p}, nd |-> W.now, err |-> FALSE]}
        ELSE IF nd = None \/ deadline <= nd
        THEN AdvanceScanUnchecked(W, todo \ {p},
                 (IF nd # None /\ deadline < nd THEN {} ELSE np) \cup {p},
                 deadline)
        ELSE AdvanceScanUnchecked(W, todo \ {p}, np, nd)
        : p \in todo }

\* The loop of _Timeline.advance over the wait table, in every iteration order:
\* np is nearest_processes, nd is nearest_deadline.
RECURSIVE AdvanceScan(_, _, _, _)
AdvanceScan(W, todo, np, nd) ==
    IF todo = {} THEN {[np |-> np, nd |-> nd, err |-> FALSE]}
    ELSE UNION {
        LET deadline == W.deadlines[p] IN
        IF deadline = None
        THEN {[np |-> {p}, nd |-> W.now, err |-> FALSE]}
        ELSE IF nd = None \/ deadline <= nd
        THEN IF deadline < W.now
             THEN {[np |-> np, nd |-> nd, err |-> TRUE]}
             ELSE AdvanceScan(W, todo \ {p},
                      (IF nd # None /\ deadline < nd THEN {} ELSE np) \cup {p},
                      deadline)
        ELSE AdvanceScan(W, todo \ {p}, np, nd)
        : p \in todo }

WakeAll(ps, S) ==
    [q \in DOMAIN ps |-> IF q \in S THEN [ps[q] EXCEPT !.runnable = TRUE] ELSE ps[q]]

\* Mutant of TimelineAdvance: the whole wait table is cleared.
TimelineAdvanceClear(W) ==
    { IF r.err THEN [w |-> [W EXCEPT !.err = TRUE], woke |-> FALSE]
      ELSE IF r.np = {} THEN [w |-> W, woke |-> FALSE]
      ELSE [w |-> [W EXCEPT !.procs = WakeAll(@, r.np),
                            !.deadlines = <<>>,
                            !.now = r.nd],
            woke |-> TRUE]
      : r \in AdvanceScan(W, DOMAIN W.deadlines, {}, None) }

TimelineAdvance(W) ==
    { IF r.err THEN [w |-> [W EXCEPT !.err = TRUE], woke |-> FALSE]
      ELSE IF r.np = {} THEN [w |-> W, woke |-> FALSE]
      ELSE [w |-> [W EXCEPT !.procs = WakeAll(@, r.np),
                            !.deadlines = Drop(@, r.np),
                            !.now = r.nd],
            woke |-> TRUE]
      : r \in AdvanceScan(W, DOMAIN W.deadlines, {}, None) }

\* ------------------------------------------------------------------ _PySignalState
\* writes is bookkeeping: the set() calls since the last commit, each with the
\* value written and the slot's next value and pending membership around it.
NewSlot(signal) ==
    [signal |-> signal, curr |-> signalReset[signal], next |-> signalReset[signal],
     waiters |-> <<>>, writes |-> <<>>]

SetCall(W, R, index, value) ==
    [R EXCEPT !.slots[index].writes = Append(@,
        [value |-> value,
         nextBefore |-> W.slots[index].next, nextAfter |-> R.slots[index].next,
         currBefore |-> W.slots[index].curr, currAfter |-> R.slots[index].curr,
         pendingBefore |-> index \in W.pending, pendingAfter |-> index \in R.pending])]

\* Mutant of SlotSet: the write goes through to the current value.
SlotSetThrough(W, index, value) ==
    IF W.slots[index].next = value
    THEN SetCall(W, W, index, value)
    ELSE SetCall(W, [W EXCEPT !.slots[index].next = value, !.slots[index].curr = value,
                              !.pending = @ \cup {index}],
                 index, value)

\* Mutant of SlotSet: the slot is not added to the pending set.
SlotSetUnqueued(W, index, value) ==
    IF W.slots[index].next = value
    THEN SetCall(W, W, index, value)
    ELSE SetCall(W, [W EXCEPT !.slots[index].next = value], index, value)

SlotSet(W, index, value) ==
    IF W.slots[index].next = value
    THEN SetCall(W, W, index, value)
    ELSE SetCall(W, [W EXCEPT !.slots[index].next = value, !.pending = @ \cup {index}],
                 index, value)

\* Mutant of SlotCommit: it returns whether the slot changed, not whether a
\* waiter was woken.
SlotCommitChanged(W, index) ==
    LET slot == W.slots[index] IN
    IF slot.curr = slot.next
    THEN [w |-> W, awoken |-> FALSE]
    ELSE LET woken == {p \in DOMAIN slot.waiters :
                          slot.waiters[p] = None \/ slot.waiters[p] = slot.next}
         IN  [w |-> [W EXCEPT !.slots[index].curr = slot.next,
                              !.procs = WakeAll(@, woken),
                              !.wakes = BagAdd(@, {<<index, p>> : p \in woken})],
              awoken |-> TRUE]

\* Mutant of SlotCommit: no early return when the value did not change.
SlotCommitAlways(W, index) ==
    LET slot == W.slots[index]
        woken == {p \in DOMAIN slot.waiters :
                     slot.waiters[p] = None \/ slot.waiters[p] = slot.next}
    IN  [w |-> [W EXCEPT !.slots[index].curr = slot.next,
                         !.procs = WakeAll(@, woken),
                         !.wakes = BagAdd(@, {<<index, p>> : p \in woken})],
         awoken |-> woken # {}]

\* Mutant of SlotCommit: the trigger is compared with the value before the
\* commit.
SlotCommitOldValue(W, index) ==
    LET slot == W.slots[index] IN
    IF slot.curr = slot.next
    THEN [w |-> W, awoken |-> FALSE]
    ELSE LET woken == {p \in DOMAIN slot.waiters :
                          slot.waiters[p] = None \/ slot.waiters[p] = slot.curr}
         IN  [w |-> [W EXCEPT !.slots[index].curr = slot.next,
                              !.procs = WakeAll(@, woken),
                              !.wakes = BagAdd(@, {<<index, p>> : p \in woken})],
              awoken |-> woken # {}]

\* _PySignalState.commit: awoken tells whether any waiter was made runnable.
\* wakes counts the executions of `process.runnable = True` per (slot, process).
SlotCommit(W, index) ==
    LET slot == W.slots[index] IN
    IF slot.curr = slot.next
    THEN [w |-> W, awoken |-> FALSE]
    ELSE LET woken == {p \in DOMAIN slot.waiters :
                          slot.waiters[p] = None \/ slot.waiters[p] = slot.next}
         IN  [w |-> [W EXCEPT !.slots[index].curr = slot.next,
                              !.procs = WakeAll(@, woken),
                              !.wakes = BagAdd(@, {<<index, p>> : p \in woken})],
              awoken |-> woken # {}]

\* ------------------------------------------------------------------ _PySimulation
StateReset(W) ==
    LET T == TimelineReset(W)
        Restore(slot) == [slot EXCEPT !.curr = signalReset[slot.signal],
                                      !.next = signalReset[slot.signal]]
    IN  [T EXCEPT !.slots = [i \in 1..Len(W.slots) |->
                                IF \E s \in DOMAIN W.signals : W.signals[s] = i
                                THEN Restore(W.slots[i])
                                ELSE W.slots[i]],
                  !.pending = {}]

\* get_signal returns the index and may allocate the slot.
GetSignal(W, signal) ==
    IF signal \in DOMAIN W.signals
    THEN [w |-> W, index |-> W.signals[signal]]
    ELSE [w |-> [W EXCEPT !.slots = Append(@, NewSlot(signal)),
                          !.signals = Put(@, signal, Len(W.slots) + 1)],
          index |-> Len(W.slots) + 1]

AddTrigger(W, process, signal, trigger) ==
    LET g == GetSignal(W, signal) IN
    IF process \in DOMAIN g.w.slots[g.index].waiters
       /\ g.w.slots[g.index].waiters[process] # trigger
    THEN [g.w EXCEPT !.err = TRUE]
    ELSE [g.w EXCEPT !.slots[g.index].waiters = Put(@, process, trigger)]

RemoveTrigger(W, process, signal) ==
    LET g == GetSignal(W, signal) IN
    IF process \notin DOMAIN g.w.slots[g.index].waiters
    THEN [g.w EXCEPT !.err = TRUE]
    ELSE [g.w EXCEPT !.slots[g.index].waiters = Drop(@, {process})]

WaitInterval(W, process, interval) == TimelineDelay(W, interval, process)

\* Mutant of CommitLoop: `converged = not signal_state.commit()`, so that the
\* last slot committed decides alone.
RECURSIVE CommitLoopLast(_, _, _)
CommitLoopLast(W, todo, converged) ==
    IF todo = {} THEN {[w |-> W, converged |-> converged]}
    ELSE UNION { LET r == SlotCommit(W, i)
                 IN  CommitLoopLast(r.w, todo \ {i}, ~r.awoken)
                 : i \in todo }

\* The loop of _PySimulation.commit over the pending set, in every order.
RECURSIVE CommitLoop(_, _, _)
CommitLoop(W, todo, converged) ==
    IF todo = {} THEN {[w |-> W, converged |-> converged]}
    ELSE UNION { LET r == SlotCommit(W, i)
                 IN  CommitLoop(r.w, todo \ {i}, converged /\ ~r.awoken)
                 : i \in todo }

\* One entry of the step's commit record: the slots whose current value the
\* commit changed, as (time, signal, value), the wake-ups it made, and the
\* set() calls it committed.
CommitBatch(before, after, left, converged) ==
    [changes |-> {<<after.now, after.slots[i].signal, after.slots[i].curr>> :
                     i \in {j \in 1..Len(before.slots) :
                               before.slots[j].curr # after.slots[j].curr}},
     wakes   |-> after.wakes,
     writes  |-> [i \in 1..Len(before.slots) |-> before.slots[i].writes],
     pending |-> before.pending,
     pendingLeft |-> left,
     converged |-> converged,
     nextBefore |-> [i \in 1..Len(before.slots) |-> before.slots[i].next],
     nextAfter  |-> [i \in 1..Len(after.slots) |-> after.slots[i].next],
     currBefore |-> CurrOf(before),
     currAfter  |-> CurrOf(after),
     signal     |-> [i \in 1..Len(before.slots) |-> before.slots[i].signal],
     runnableBefore |-> {p \in DOMAIN before.procs : before.procs[p].runnable},
     runnableAfter  |-> {p \in DOMAIN after.procs : after.procs[p].runnable},
     waiters |-> [i \in 1..Len(before.slots) |-> before.slots[i].waiters]]

\* Mutant of StateCommit: the pending set is cleared only when a changed set
\* was passed.
StateCommitIndented(W, changed) ==
    { [w |-> [r.w EXCEPT !.pending = IF changed.some THEN {} ELSE @,
                         !.slots = [i \in 1..Len(@) |-> [@[i] EXCEPT !.writes = <<>>]],
                         !.wakes = <<>>,
                         !.commits = Append(@, CommitBatch(W, r.w,
                                         IF changed.some THEN {} ELSE r.w.pending,
                                         r.converged))],
       converged |-> r.converged,
       changed |-> IF changed.some
                   THEN [changed EXCEPT !.slots = @ \cup W.pending]
                   ELSE changed]
      : r \in CommitLoop([W EXCEPT !.wakes = <<>>], W.pending, TRUE) }

\* changed is [some |-> whether a set was passed, slots |-> the set].
StateCommit(W, changed) ==
    { [w |-> [r.w EXCEPT !.pending = {},
                         !.slots = [i \in 1..Len(@) |-> [@[i] EXCEPT !.writes = <<>>]],
                         !.wakes = <<>>,
                         !.commits = Append(@, CommitBatch(W, r.w, {}, r.converged))],
       converged |-> r.converged,
       changed |-> IF changed.some
                   THEN [changed EXCEPT !.slots = @ \cup W.pending]
                   ELSE changed]
      : r \in CommitLoop([W EXCEPT !.wakes = <<>>], W.pending, TRUE) }

\* ------------------------------------------------------------------ processes
\* The three process variants ({runnable, passive, run(), reset()}).  A process
\* is one record; the fields a variant does not use keep their defaults.
Cmd(op, a, b) == [op |-> op, a |-> a, b |-> b]

\* The testbench coroutines the model draws from.  Each is a cyclic script of
\* writes followed by a suspension (settle, delay, edge wait).
Scripts ==
    << \* 1: drives signal 1, with repeated writes and a reverted write
       << Cmd("set", 1, 1), Cmd("set", 1, 1), Cmd("delay", 2, 0),
          Cmd("set", 1, 0), Cmd("set", 1, 1), Cmd("set", 1, 1), Cmd("settle", 0, 0),
          Cmd("set", 1, 0), Cmd("delay", 1, 0) >>,
       \* 2: waits for signal 2 to become 1, then inverts the last signal
       << Cmd("edge", 2, 1), Cmd("inv", NSig, 0) >>,
       \* 3: waits for any change of signal 1, then copies it to the last signal
       << Cmd("edge", 1, None), Cmd("copy", 1, NSig) >>,
       \* 4: sleeps
       << Cmd("delay", 3, 0) >>,
       \* 5: settles after toggling signal 2
       << Cmd("inv", 2, 0), Cmd("settle", 0, 0) >>,
       \* 6: sleeps, then asks for a wake-up two time units in the past
       << Cmd("delay", 3, 0), Cmd("delay", 0 - 2, 0) >> >>

CoroChoices ==
    {<<1, FALSE>>, <<2, FALSE>>, <<3, TRUE>>, <<4, TRUE>>, <<5, TRUE>>, <<6, TRUE>>}

DefaultProc ==
    [kind |-> "rtl", runnable |-> TRUE, passive |-> TRUE,
     inp |-> 0, out |-> 0, fn |-> "buf",
     slot |-> 0, phase |-> 0, period |-> 0, initial |-> TRUE,
     script |-> 0, pc |-> 1, default_passive |-> FALSE, waits_on |-> {}]

Gate(fn, v) == IF fn = "not" THEN 1 - v ELSE IF fn = "zero" THEN 0 ELSE v

\* Compiled-logic process: evaluates its input's current value and drives its
\* output; never suspends.
RtlRun(W, p) ==
    LET P == W.procs[p] IN
    SlotSet(W, W.signals[P.out], Gate(P.fn, W.slots[W.signals[P.inp]].curr))

\* Clock process: the first run waits for the phase, every later run toggles
\* the clock and re-arms itself half a period later.
ClockRun(W, p) ==
    LET P == W.procs[p] IN
    IF P.initial
    THEN WaitInterval([W EXCEPT !.procs[p].initial = FALSE], p, P.phase)
    ELSE WaitInterval(SlotSet(W, P.slot, 1 - W.slots[P.slot].curr), p, P.period \div 2)

\* Coroutine process: runs its commands up to the next suspension request.
RECURSIVE CoroExec(_, _)
CoroExec(W, p) ==
    LET P    == W.procs[p]
        scr  == Scripts[P.script]
        c    == scr[P.pc]
        N    == [W EXCEPT !.procs[p].pc = (P.pc % Len(scr)) + 1]
    IN  IF W.err THEN W
        ELSE IF c.op = "set"
        THEN LET g == GetSignal(N, c.a) IN CoroExec(SlotSet(g.w, g.index, c.b), p)
        ELSE IF c.op = "inv"
        THEN LET g == GetSignal(N, c.a)
             IN  CoroExec(SlotSet(g.w, g.index, 1 - g.w.slots[g.index].curr), p)
        ELSE IF c.op = "copy"
        THEN LET g == GetSignal(N, c.a)
                 h == GetSignal(g.w, c.b)
             IN  CoroExec(SlotSet(h.w, h.index, h.w.slots[g.index].curr), p)
        ELSE IF c.op = "settle" THEN WaitInterval(N, p, None)
        ELSE IF c.op = "delay"  THEN WaitInterval(N, p, c.a)
        ELSE AddTrigger([N EXCEPT !.procs[p].waits_on = @ \cup {c.a}], p, c.a, c.b)

RECURSIVE ClearTriggers(_, _, _)
ClearTriggers(W, p, todo) ==
    IF todo = {} \/ W.err THEN W
    ELSE LET s == CHOOSE x \in todo : TRUE
         IN  ClearTriggers(RemoveTrigger(W, p, s), p, todo \ {s})

CoroRun(W, p) ==
    LET C == ClearTriggers(W, p, W.procs[p].waits_on)
    IN  CoroExec([C EXCEPT !.procs[p].waits_on = {}], p)

ProcessRun(W, p) ==
    IF W.procs[p].kind = "rtl" THEN RtlRun(W, p)
    ELSE IF W.procs[p].kind = "clock" THEN ClockRun(W, p)
    ELSE CoroRun(W, p)

ProcessReset(P) ==
    [P EXCEPT !.runnable = TRUE, !.passive = IF P.kind = "coro" THEN P.default_passive ELSE @,
              !.initial = TRUE, !.pc = 1, !.waits_on = {}]

\* ------------------------------------------------------------------ _VCDWriter
TabSize == 8

\* Signal.decoder of the decoder-backed signal: value -> display string, as a
\* sequence of characters.
HasDecoder(signal) == signal = NSig
Decoder(value) == IF value = 0 THEN <<"O", "F", "F">> ELSE <<"O", "N", "\t", "A", " ", "B">>

Spaces(n) == [i \in 1..n |-> " "]

\* str.expandtabs(): a tab becomes the spaces up to the next tab stop.
RECURSIVE ExpandTabs(_, _)
ExpandTabs(str, col) ==
    IF str = <<>> THEN <<>>
    ELSE IF Head(str) = "\t"
    THEN Spaces(TabSize - (col % TabSize)) \o ExpandTabs(Tail(str), 0)
    ELSE IF Head(str) \in {"\n", "\r"}
    THEN <<Head(str)>> \o ExpandTabs(Tail(str), 0)
    ELSE <<Head(str)>> \o ExpandTabs(Tail(str), col + 1)

DecodeToVcd(value) ==
    LET e == ExpandTabs(Decoder(value), 0)
    IN  [i \in 1..Len(e) |-> IF e[i] = " " THEN "_" ELSE e[i]]

\* _VCDWriter.__init__, as far as the engine's step depends on it: the signals
\* that get a variable are those of the fragment and the traces, and none when
\* no log file was asked for.
FragmentSignals(stmts) ==
    {stmts[i].inp : i \in 1..Len(stmts)} \cup {stmts[i].out : i \in 1..Len(stmts)}

VcdWriterInit(stmts, vcd_file, traces) ==
    [vcd_file |-> vcd_file,
     vcd_vars |-> IF vcd_file THEN FragmentSignals(stmts) \cup traces ELSE {},
     records  |-> <<>>]

\* A value-change record: bits for a wire, text for a decoder-backed signal.
VcdUpdate(writer, timestamp, signal, value) ==
    IF signal \notin writer.vcd_vars THEN writer
    ELSE [writer EXCEPT !.records = Append(@,
             [timestamp |-> timestamp, signal |-> signal,
              bits |-> IF HasDecoder(signal) THEN None ELSE value,
              text |-> IF HasDecoder(signal) THEN DecodeToVcd(value) ELSE <<>>])]

\* ------------------------------------------------------------------ PySimEngine
\* The eval phase of _step over the process set, in every iteration order.
\* obs records, for every process run, the current values it could read, the
\* current values at the start of the phase and the current values it left.
RECURSIVE EvalLoop(_, _)
EvalLoop(W, todo) ==
    LET r == {p \in todo : W.procs[p].runnable} IN
    IF W.err \/ r = {} THEN {W}
    ELSE UNION {
        LET R == ProcessRun([W EXCEPT !.procs[p].runnable = FALSE], p)
        IN  EvalLoop([R EXCEPT !.obs = @ \cup
                         {[iter |-> W.iter, proc |-> p, start |-> W.phaseStart,
                           seen |-> CurrOf(W), left |-> CurrOf(R),
                           wrote |-> {i \in 1..Len(W.slots) :
                                         W.slots[i].next # R.slots[i].next}]}],
                     todo \ {p})
        : p \in r }

\* Mutant of StepLoop: one eval phase and one commit, whatever the commit
\* reports.
StepLoopOnce(W, changed) ==
    UNION {
        IF e.err THEN {[w |-> e, changed |-> changed]}
        ELSE {[w |-> c.w, changed |-> c.changed] : c \in StateCommit(e, changed)}
        : e \in EvalLoop([W EXCEPT !.iter = @ + 1, !.phaseStart = CurrOf(W)],
                         DOMAIN W.procs) }

\* The delta-cycle loop of _step.
RECURSIVE StepLoop(_, _)
StepLoop(W, changed) ==
    IF W.iter >= MaxIters
    THEN {[w |-> [W EXCEPT !.diverged = TRUE], changed |-> changed]}
    ELSE UNION {
        IF e.err THEN {[w |-> e, changed |-> changed]}
        ELSE UNION { IF c.converged
                     THEN {[w |-> c.w, changed |-> c.changed]}
                     ELSE StepLoop(c.w, c.changed)
                     : c \in StateCommit(e, changed) }
        : e \in EvalLoop([W EXCEPT !.iter = @ + 1, !.phaseStart = CurrOf(W)],
                         DOMAIN W.procs) }

\* `for signal_state in changed: vcd_writer.update(...)`, in every order of the
\* changed set (the same order for every writer: it is one set object).
RECURSIVE EmitLoop(_, _, _)
EmitLoop(W, writers, todo) ==
    IF todo = {} THEN {writers}
    ELSE UNION { EmitLoop(W,
                     [k \in 1..Len(writers) |->
                         VcdUpdate(writers[k], W.now, W.slots[i].signal, W.slots[i].curr)],
                     todo \ {i})
                 : i \in todo }

Step(W, writers) ==
    UNION { IF s.w.err \/ s.w.diverged \/ writers = <<>>
            THEN {[w |-> s.w, writers |-> writers]}
            ELSE {[w |-> s.w, writers |-> ws] : ws \in EmitLoop(s.w, writers, s.changed.slots)}
            : s \in StepLoop(W, [some |-> writers # <<>>, slots |-> {}]) }

\* Mutant of AdvanceOutcomes: the return value also takes what
\* _Timeline.advance returned.
AdvanceOutcomesWoke(W, writers) ==
    UNION { IF s.w.err \/ s.w.diverged
            THEN {[w |-> s.w, stepped |-> s.w, writers |-> s.writers, woke |-> FALSE,
                   ret |-> "None"]}
            ELSE { [w |-> t.w, stepped |-> s.w, writers |-> s.writers, woke |-> t.woke,
                    ret |-> IF t.w.err THEN "None"
                            ELSE IF t.woke \/ \E p \in DOMAIN t.w.procs : ~t.w.procs[p].passive
                            THEN "True" ELSE "False"]
                   : t \in TimelineAdvance(s.w) }
            : s \in Step(W, writers) }

\* PySimEngine.advance: ret is its return value ("None" when it did not return).
AdvanceOutcomes(W, writers) ==
    UNION { IF s.w.err \/ s.w.diverged
            THEN {[w |-> s.w, stepped |-> s.w, writers |-> s.writers, woke |-> FALSE,
                   ret |-> "None"]}
            ELSE { [w |-> t.w, stepped |-> s.w, writers |-> s.writers, woke |-> t.woke,
                    ret |-> IF t.w.err THEN "None"
                            ELSE IF \E p \in DOMAIN t.w.procs : ~t.w.procs[p].passive
                            THEN "True" ELSE "False"]
                   : t \in TimelineAdvance(s.w) }
            : s \in Step(W, writers) }

EngineReset(W) ==
    LET S == StateReset(W)
    IN  [S EXCEPT !.procs = [p \in DOMAIN @ |-> ProcessReset(@[p])]]

\* ------------------------------------------------------------------ construction
ResetChoices == {[s \in Sigs |-> 0], [s \in Sigs |-> s % 2]}

\* The fragments the model draws from: chains of gates 1 -> 2 -> ... of every
\* depth, each gate a buffer, an inverter or a constant.
GateChoices == {"buf", "not", "zero"}
Stmt(i, fn) == [inp |-> i, out |-> i + 1, fn |-> fn]
FragmentChoices ==
    UNION { {[i \in 1..d |-> Stmt(i, f[i])] : f \in [1..d -> GateChoices]}
            : d \in 0..(NSig - 1) }

\* _FragmentCompiler: one compiled process per statement, with a trigger on its
\* input registered.
RECURSIVE Compile(_, _, _)
Compile(W, stmts, i) ==
    IF i > Len(stmts) THEN W
    ELSE LET a == GetSignal(W, stmts[i].inp)
             b == GetSignal(a.w, stmts[i].out)
             P == [DefaultProc EXCEPT !.inp = stmts[i].inp, !.out = stmts[i].out,
                                      !.fn = stmts[i].fn]
             T == AddTrigger([b.w EXCEPT !.procs = Put(@, i, P)], i, stmts[i].inp, None)
         IN  Compile(T, stmts, i + 1)

EmptyWorld ==
    [now |-> 0, deadlines |-> <<>>, signals |-> <<>>, slots |-> <<>>,
     pending |-> {}, procs |-> <<>>, err |-> FALSE,
     diverged |-> FALSE, iter |-> 0, phaseStart |-> <<>>, obs |-> {},
     wakes |-> <<>>, commits |-> <<>>, settled |-> {}]

NoStep == [commits |-> <<>>, obs |-> {}, emitted |-> <<>>, before |-> EmptyWorld,
           stepped |-> EmptyWorld, final |-> EmptyWorld, recording |-> FALSE,
           woke |-> FALSE]

\* The parts of the state an engine run does not use.
RecorderUnused ==
    /\ design = <<>> /\ signalName = <<>> /\ files = <<>> /\ raised = "None"
    /\ nScopes = 0 /\ lastSetup = <<>>
PlansUnused == plans = <<>>

Init ==
    /\ signalReset \in ResetChoices
    /\ fragment \in FragmentChoices
    /\ LET W == Compile(EmptyWorld, fragment, 1)
       IN  /\ now = W.now
           /\ deadlines = W.deadlines
           /\ signals = W.signals
           /\ slots = W.slots
           /\ pending = W.pending
           /\ procs = W.procs
    /\ vcd_writers = <<>>
    /\ err = FALSE
    /\ hung = FALSE
    /\ ret = "None"
    /\ lastStep = NoStep
    /\ nAdvance = 0
    /\ lastOp = "init"
    /\ RecorderUnused
    /\ PlansUnused

\* ------------------------------------------------------------------ actions
Install(W) ==
    /\ now' = W.now
    /\ deadlines' = W.deadlines
    /\ signals' = W.signals
    /\ slots' = W.slots
    /\ pending' = W.pending
    /\ procs' = W.procs
    /\ err' = W.err
    /\ hung' = W.diverged

Running == ~err /\ ~hung

NewProcId == Len(procs) + 1

\* The process set is a set: the order of the add calls does not matter, so
\* the model adds processes in one order only (by rank of the kind added).
LastRank ==
    IF procs = <<>> \/ procs[Len(procs)].kind = "rtl" THEN 0
    ELSE IF procs[Len(procs)].kind = "clock" THEN Len(Scripts) + 1
    ELSE procs[Len(procs)].script

AddCoroutineProcess(script, passive) ==
    /\ Running /\ nAdvance = 0 /\ NewProcId \in ProcIds /\ script >= LastRank
    /\ Install([World EXCEPT !.procs = Put(@, NewProcId,
           [DefaultProc EXCEPT !.kind = "coro", !.script = script,
                               !.passive = passive, !.default_passive = passive])])
    /\ lastOp' = "add_coroutine_process"
    /\ UNCHANGED <<recorderVars, planVars, signalReset, fragment, vcd_writers, ret, lastStep, nAdvance>>

AddClockProcess(clock, phase, period) ==
    /\ Running /\ nAdvance = 0 /\ NewProcId \in ProcIds
    /\ LET g == GetSignal(World, clock)
       IN  Install([g.w EXCEPT !.procs = Put(@, NewProcId,
               [DefaultProc EXCEPT !.kind = "clock", !.passive = FALSE, !.slot = g.index,
                                   !.phase = phase, !.period = period])])
    /\ lastOp' = "add_clock_process"
    /\ UNCHANGED <<recorderVars, planVars, signalReset, fragment, vcd_writers, ret, lastStep, nAdvance>>

Reset ==
    /\ Running
    /\ Install(EngineReset(World))
    /\ lastOp' = "reset"
    /\ UNCHANGED <<recorderVars, planVars, signalReset, fragment, vcd_writers, ret, lastStep, nAdvance>>

Bare(W) == [W EXCEPT !.obs = {}, !.commits = <<>>]

Emitted(before, after) ==
    [k \in 1..Len(after) |-> SubSeq(after[k].records, Len(before[k].records) + 1,
                                    Len(after[k].records))]

Advance ==
    /\ Running /\ nAdvance < MaxAdvance
    /\ \E o \in AdvanceOutcomes(World, vcd_writers) :
          /\ Install(o.w)
          /\ vcd_writers' = o.writers
          /\ ret' = o.ret
          /\ lastStep' = [commits |-> o.w.commits, obs |-> o.w.obs,
                          emitted |-> Emitted(vcd_writers, o.writers),
                          before |-> World, stepped |-> Bare(o.stepped),
                          final |-> Bare(o.w), recording |-> vcd_writers # <<>>,
                          woke |-> o.woke]
    /\ nAdvance' = nAdvance + 1
    /\ lastOp' = "advance"
    /\ UNCHANGED <<recorderVars, planVars, signalReset, fragment>>

\* write_vcd: entering the scope attaches a recorder, leaving it closes and
\* removes the recorder.
WriteVcdEnter(vcd_file, traces) ==
    /\ Running /\ Len(vcd_writers) < MaxWriters
    /\ vcd_writers' = Append(vcd_writers, VcdWriterInit(fragment, vcd_file, traces))
    /\ lastOp' = "write_vcd"
    /\ UNCHANGED <<recorderVars, planVars, signalReset, fragment, now, deadlines, signals, slots, pending,
                   procs, err, hung, ret, lastStep, nAdvance>>

WriteVcdExit ==
    /\ Running /\ vcd_writers # <<>>
    /\ vcd_writers' = SubSeq(vcd_writers, 1, Len(vcd_writers) - 1)
    /\ lastOp' = "close"
    /\ UNCHANGED <<recorderVars, planVars, signalReset, fragment, now, deadlines, signals, slots, pending,
                   procs, err, hung, ret, lastStep, nAdvance>>

ClockPhases == {1}
FileChoices == {TRUE}
TraceChoices == {{1}}

Next ==
    \/ \E c \in CoroChoices : AddCoroutineProcess(c[1], c[2])
    \/ \E phase \in ClockPhases : AddClockProcess(1, phase, 2)
    \/ Reset
    \/ Advance
    \/ \E f \in FileChoices, t \in TraceChoices : WriteVcdEnter(f, t)
    \/ WriteVcdExit

Spec == Init /\ [][Next]_vars

\* ------------------------------------------------------------------ claims
Returned == lastOp = "advance" /\ ret # "None"
NonPassive == \E p \in DOMAIN procs : ~procs[p].passive

\* C1 (as stated): advance() returns true if and only if a non-passive process
\* exists or a wake-up is still registered on the timeline.
C1_AsStated ==
    Returned => (ret = "True" <=> (NonPassive \/ DOMAIN deadlines # {}))

\* C1 (amended): advance() returns true if and only if a non-passive process
\* exists, whatever the timeline holds: with only passive processes it returns
\* false, with a wake-up still registered or without.
C1_ReturnsNonPassive ==
    Returned => (ret = "True" <=> NonPassive)

C1_Witness ==
    /\ Returned /\ ret = "False"
    /\ ~NonPassive
    /\ DOMAIN deadlines # {}
    /\ lastStep.stepped.deadlines # <<>>

\* ------------------------------------------------------------------
\* What a run can be observed to do in one advance(): the commits of the step
\* as batches of (time, signal, value), and the state the advance leaves, the
\* slots taken by signal (a slot's index is the order of first reference).
BySignal(W) ==
    [sg \in DOMAIN W.signals |->
        [curr |-> W.slots[W.signals[sg]].curr,
         next |-> W.slots[W.signals[sg]].next,
         waiters |-> W.slots[W.signals[sg]].waiters]]

Observed(o) ==
    [committed |-> [k \in 1..Len(o.w.commits) |-> o.w.commits[k].changes],
     now |-> o.w.now, deadlines |-> o.w.deadlines, slots |-> BySignal(o.w),
     pending |-> {o.w.slots[i].signal : i \in o.w.pending},
     procs |-> o.w.procs, err |-> o.w.err, diverged |-> o.w.diverged, ret |-> o.ret]

\* The signals a process drives.
Drives(P) ==
    IF P.kind = "rtl" THEN {P.out}
    ELSE IF P.kind = "clock" THEN {slots[P.slot].signal}
    ELSE {Scripts[P.script][i].a : i \in {j \in 1..Len(Scripts[P.script]) :
                                            Scripts[P.script][j].op \in {"set", "inv"}}}
         \cup {Scripts[P.script][i].b : i \in {j \in 1..Len(Scripts[P.script]) :
                                                 Scripts[P.script][j].op = "copy"}}

SingleDriver ==
    \A p, q \in DOMAIN procs : p # q => Drives(procs[p]) \cap Drives(procs[q]) = {}

\* C2: with a single driver per signal, the next advance() commits the same
\* (time, signal, value) batches and leaves the same state in every order in
\* which the process set, the pending set and the wait table can be iterated.
C2_Deterministic ==
    (Running /\ SingleDriver) =>
        Cardinality({Observed(o) : o \in AdvanceOutcomes(World, vcd_writers)}) = 1

\* A state whose step ran two processes in one eval phase and committed two
\* slots in one commit, with two processes left waiting on the timeline.
C2_Witness ==
    /\ Returned /\ SingleDriver
    /\ \E a, b \in lastStep.obs : a.iter = b.iter /\ a.proc # b.proc
                                   /\ a.wrote # {} /\ b.wrote # {}
    /\ \E k \in 1..Len(lastStep.commits) : Cardinality(lastStep.commits[k].pending) >= 2
    /\ Cardinality(DOMAIN lastStep.stepped.deadlines) >= 2

Commits == lastStep.commits
Last(q) == q[Len(q)]

\* C3: in an eval phase every process reads the values that were current when
\* the phase began and no set() changes a current value; the current values
\* change in commit() only, where every pending slot takes its next value, and
\* the next eval phase starts from the committed batch.
C3_Isolation ==
    lastOp = "advance" =>
        /\ \A o \in lastStep.obs :
              /\ \A i \in DOMAIN o.start : o.seen[i] = o.start[i]
              /\ \A i \in DOMAIN o.seen : o.left[i] = o.seen[i]
        /\ \A k \in 1..Len(Commits) :
              /\ \A i \in DOMAIN Commits[k].writes : \A n \in DOMAIN Commits[k].writes[i] :
                    Commits[k].writes[i][n].currAfter = Commits[k].writes[i][n].currBefore
              /\ \A o \in lastStep.obs : o.iter = k =>
                    \A i \in DOMAIN o.start : Commits[k].currBefore[i] = o.start[i]
              /\ \A i \in DOMAIN Commits[k].currBefore :
                    Commits[k].currAfter[i] =
                        IF i \in Commits[k].pending
                        THEN Last(Commits[k].writes[i]).nextAfter
                        ELSE Commits[k].currBefore[i]
              /\ \A o \in lastStep.obs : o.iter = k + 1 =>
                    \A i \in DOMAIN Commits[k].currAfter : o.start[i] = Commits[k].currAfter[i]

\* A process wrote a new value to the signal that a compiled process running
\* in the same eval phase reads.
C3_Witness ==
    /\ lastOp = "advance"
    /\ \E a, b \in lastStep.obs :
          /\ a.iter = b.iter /\ a.proc # b.proc
          /\ procs[b.proc].kind = "rtl"
          /\ signals[procs[b.proc].inp] \in a.wrote
          /\ \E k \in 1..Len(Commits) :
                k = a.iter /\ \E i \in a.wrote : Commits[k].currAfter[i] # Commits[k].currBefore[i]

\* The processes the step registered with a zero-delay wait, and the others
\* on the timeline when the step ended.
Settled == lastStep.stepped.settled
Later == DOMAIN lastStep.stepped.deadlines \ Settled

\* C4: with zero-delay waits registered and every other wait due after now,
\* _Timeline.advance wakes all zero-delay processes, leaves the others
\* registered and not woken, and leaves now unchanged.
C4_ZeroDelayPriority ==
    (/\ Returned /\ Settled # {}
     /\ \A q \in Later : lastStep.stepped.deadlines[q] > lastStep.stepped.now) =>
        /\ now = lastStep.stepped.now
        /\ \A p \in Settled : procs[p].runnable /\ p \notin DOMAIN deadlines
        /\ \A q \in Later :
              /\ q \in DOMAIN deadlines
              /\ deadlines[q] = lastStep.stepped.deadlines[q]
              /\ procs[q].runnable = lastStep.stepped.procs[q].runnable
              /\ ~procs[q].runnable

C4_Witness ==
    /\ Returned /\ Cardinality(Settled) >= 2 /\ Later # {}
    /\ \A q \in Later : lastStep.stepped.deadlines[q] = lastStep.stepped.now + 3
    /\ \A p \in Settled : procs[p].runnable

\* ------------------------------------------------------------------
\* A chain of Depth compiled processes whose input (signal 1) is driven by
\* one testbench process and nothing else, and a step that began with only
\* the testbench runnable and committed a change of the input.
Depth == Len(fragment)
ChainDriven ==
    /\ Depth >= 1 /\ Len(procs) = Depth + 1
    /\ procs[Depth + 1].kind = "coro" /\ procs[Depth + 1].script = 1
SingleInputChange ==
    /\ Returned
    /\ \E o \in lastStep.obs : o.iter = 1
    /\ \A o \in lastStep.obs : o.iter = 1 => o.proc = Depth + 1
    /\ Commits[1].changes # {}
\* The levels of the chain whose input (signal i for level i), and whose
\* output (signal i + 1), some commit of the step changed.
SignalChanged(sg) == \E k \in 1..Len(Commits) : \E c \in Commits[k].changes : c[2] = sg
LevelsRun == {i \in 1..Depth : SignalChanged(i)}
LevelsChanged == {i \in 1..Depth : SignalChanged(i + 1)}

\* C5 (as stated): the step of a single input change into a chain of depth d
\* takes d eval/commit iterations.
C5_AsStated ==
    (ChainDriven /\ SingleInputChange) => Len(Commits) = Depth

\* C5 (amended): the step terminates after one eval/commit iteration for the
\* input change and one more for every level whose input changes: d + 1 when
\* the change passes through all d levels, never more.
C5_Convergence ==
    /\ ChainDriven => ~hung
    /\ (ChainDriven /\ SingleInputChange) =>
          /\ Len(Commits) = 1 + Cardinality(LevelsRun)
          /\ Len(Commits) <= Depth + 1
          /\ LevelsChanged = 1..Depth => Len(Commits) = Depth + 1

C5_Witness ==
    /\ ChainDriven /\ SingleInputChange
    /\ Depth = NSig - 1
    /\ LevelsChanged = 1..Depth
    /\ Len(Commits) = Depth + 1

\* C6: after reset() now is 0, every allocated slot holds its signal's reset
\* value as current and next value, nothing is pending and the timeline holds
\* no registration.
C6_Reset ==
    lastOp = "reset" =>
        /\ now = 0
        /\ \A i \in 1..Len(slots) :
              /\ slots[i].curr = signalReset[slots[i].signal]
              /\ slots[i].next = signalReset[slots[i].signal]
        /\ pending = {}
        /\ deadlines = <<>>

\* A reset of a simulation that had advanced in time, with waits registered
\* and a slot away from its reset value.
C6_Witness ==
    /\ lastOp = "reset"
    /\ lastStep.final.now > 0
    /\ lastStep.final.deadlines # <<>>
    /\ \E i \in 1..Len(lastStep.final.slots) :
          lastStep.final.slots[i].curr # signalReset[lastStep.final.slots[i].signal]

\* Within the set() calls a commit applies to one slot: the call n repeats
\* the value of the call before it.
Repeats(k, i, n) ==
    /\ n >= 2 /\ n <= Len(Commits[k].writes[i])
    /\ Commits[k].writes[i][n].value = Commits[k].writes[i][n - 1].value
Matching(k, i, v) ==
    {p \in DOMAIN Commits[k].waiters[i] :
        Commits[k].waiters[i][p] = None \/ Commits[k].waiters[i][p] = v}
ChangesOf(k, i) == {c \in Commits[k].changes : c[2] = Commits[k].signal[i]}
WakesOf(k, i, p) ==
    IF <<i, p>> \in DOMAIN Commits[k].wakes THEN Commits[k].wakes[<<i, p>>] ELSE 0

\* C7 (as stated): a repeated set(slot, v) is a no-op, and the two calls cause
\* exactly one change of the current value and exactly one wake-up of every
\* matching waiter at the next commit (stated for designs with one driver per
\* signal).
C7_AsStated ==
    (lastOp = "advance" /\ SingleDriver) =>
        \A k \in 1..Len(Commits) : \A i \in DOMAIN Commits[k].writes :
            \A n \in DOMAIN Commits[k].writes[i] : Repeats(k, i, n) =>
                /\ Commits[k].writes[i][n].nextAfter = Commits[k].writes[i][n].nextBefore
                /\ Commits[k].writes[i][n].pendingAfter = Commits[k].writes[i][n].pendingBefore
                /\ n = Len(Commits[k].writes[i]) =>
                      /\ Cardinality(ChangesOf(k, i)) = 1
                      /\ \A p \in Matching(k, i, Commits[k].writes[i][n].value) :
                            WakesOf(k, i, p) = 1

\* C7 (amended): a repeated set(slot, v) is a no-op; the two calls cause one
\* change of the current value and one wake-up of every matching waiter at the
\* next commit when v differs from the current value, and no change and no
\* wake-up when v is the current value.
C7_IdempotentWrites ==
    lastOp = "advance" =>
        \A k \in 1..Len(Commits) : \A i \in DOMAIN Commits[k].writes :
            \A n \in DOMAIN Commits[k].writes[i] : Repeats(k, i, n) =>
                LET v == Commits[k].writes[i][n].value
                    once == IF v # Commits[k].currBefore[i] THEN 1 ELSE 0
                IN  /\ Commits[k].writes[i][n].nextAfter = Commits[k].writes[i][n].nextBefore
                    /\ Commits[k].writes[i][n].pendingAfter = Commits[k].writes[i][n].pendingBefore
                    /\ n = Len(Commits[k].writes[i]) =>
                          /\ Cardinality(ChangesOf(k, i)) = once
                          /\ Commits[k].currAfter[i] = v
                          /\ \A p \in DOMAIN Commits[k].waiters[i] :
                                WakesOf(k, i, p) = IF p \in Matching(k, i, v) THEN once ELSE 0

\* A repeated write of a new value, committed with a matching waiter woken.
C7_Witness ==
    /\ lastOp = "advance"
    /\ \E k \in 1..Len(Commits) : \E i \in DOMAIN Commits[k].writes :
          LET n == Len(Commits[k].writes[i]) IN
          /\ Repeats(k, i, n)
          /\ Commits[k].writes[i][n].value # Commits[k].currBefore[i]
          /\ \E p \in Matching(k, i, Commits[k].writes[i][n].value) : WakesOf(k, i, p) = 1

Changed(k, i) == Commits[k].currAfter[i] # Commits[k].currBefore[i]

\* C8: a commit wakes a waiter with a concrete trigger only if it changed the
\* signal's current value to the trigger, wakes every waiter without trigger
\* of a signal whose current value it changed, and wakes no waiter of a signal
\* whose current value it did not change; no process becomes runnable in a
\* commit but by such a wake-up.
C8_EdgeTrigger ==
    lastOp = "advance" =>
        \A k \in 1..Len(Commits) :
            /\ \A i \in DOMAIN Commits[k].waiters : \A p \in DOMAIN Commits[k].waiters[i] :
                  LET t == Commits[k].waiters[i][p] IN
                  /\ (t # None /\ WakesOf(k, i, p) > 0) =>
                        (Changed(k, i) /\ Commits[k].currAfter[i] = t)
                  /\ (t = None /\ Changed(k, i)) =>
                        (WakesOf(k, i, p) > 0 /\ p \in Commits[k].runnableAfter)
                  /\ ~Changed(k, i) => WakesOf(k, i, p) = 0
            /\ \A p \in Commits[k].runnableAfter \ Commits[k].runnableBefore :
                  \E i \in DOMAIN Commits[k].waiters :
                      p \in DOMAIN Commits[k].waiters[i] /\ WakesOf(k, i, p) > 0

\* A step in which a waiter with trigger 1 was passed over by a change to 0
\* and woken by a change to 1.
C8_Witness ==
    /\ lastOp = "advance"
    /\ \E k \in 1..Len(Commits) : \E i \in DOMAIN Commits[k].waiters :
          \E p \in DOMAIN Commits[k].waiters[i] :
              /\ Commits[k].waiters[i][p] = 1
              /\ Changed(k, i) /\ Commits[k].currAfter[i] = 1
              /\ WakesOf(k, i, p) = 1 /\ p \in Commits[k].runnableAfter
    /\ \E i \in 1..Len(lastStep.before.slots) : \E p \in DOMAIN lastStep.before.slots[i].waiters :
          /\ lastStep.before.slots[i].waiters[p] = 1
          /\ lastStep.before.slots[i].curr = 0

\* The records the recorder k got in the last step for a signal.
RecordsOf(k, sg) ==
    {n \in 1..Len(lastStep.emitted[k]) : lastStep.emitted[k][n].signal = sg}

\* C9: a step emits, to every recorder, exactly one record stamped with the
\* current time for each registered signal whose current value a commit of
\* the step changed, and none for a signal no commit changed (stated for
\* designs with one driver per signal).
C9_TraceUpdate ==
    (Returned /\ lastStep.recording /\ SingleDriver) =>
        \A k \in 1..Len(lastStep.emitted) : \A sg \in vcd_writers[k].vcd_vars :
            /\ Cardinality(RecordsOf(k, sg)) = IF SignalChanged(sg) THEN 1 ELSE 0
            /\ \A n \in RecordsOf(k, sg) :
                  lastStep.emitted[k][n].timestamp = lastStep.stepped.now

\* The simulation's side of one advance(): everything but the recorders.
SimSide(o) == [w |-> o.w, stepped |-> o.stepped, ret |-> o.ret]
Recorders ==
    IF vcd_writers = <<>> THEN <<VcdWriterInit(fragment, TRUE, {1})>> ELSE vcd_writers

\* C10: from every state the next advance() goes through the same eval
\* observations and commits and leaves the same slots, runnable flags,
\* timeline and return value with a recorder attached as without one.
C10_RecorderNonInterference ==
    Running =>
        {SimSide(o) : o \in AdvanceOutcomes(World, <<>>)}
            = {SimSide(o) : o \in AdvanceOutcomes(World, Recorders)}

\* A recorded step of several delta cycles that wrote records.
C10_Witness ==
    /\ Returned /\ lastStep.recording
    /\ Len(Commits) >= 2
    /\ lastStep.emitted[1] # <<>>

\* ------------------------------------------------------------------ C14
WokeSome(k) == DOMAIN Commits[k].wakes # {}
ChangedSome(k) == Commits[k].changes # {}

\* C14 (as stated): commit() reports a fixed point exactly when it changed no
\* slot's current value, so the loop of a step goes on after every commit that
\* changed some slot and stops at the first that changed none.
C14_AsStated ==
    Returned =>
        /\ \A k \in 1..Len(Commits) : Commits[k].converged <=> ~ChangedSome(k)
        /\ \A k \in 1..Len(Commits) : ChangedSome(k) <=> k < Len(Commits)

\* C14 (amended): commit() reports a fixed point exactly when it made no
\* waiter runnable; the loop of a step goes on after every commit that woke a
\* waiter and stops at the first that woke none, whether or not that commit
\* changed a slot.  A commit that changes no slot wakes nobody.
C14_FixedPointWhenNoWake ==
    /\ lastOp = "advance" =>
          \A k \in 1..Len(Commits) :
              /\ Commits[k].converged <=> ~WokeSome(k)
              /\ WokeSome(k) => ChangedSome(k)
    /\ Returned =>
          /\ Len(Commits) >= 1
          /\ \A k \in 1..Len(Commits) : WokeSome(k) <=> k < Len(Commits)

C14_Witness ==
    /\ Returned /\ Len(Commits) >= 2
    /\ ChangedSome(Len(Commits)) /\ Commits[Len(Commits)].converged
    /\ \E k \in 1..Len(Commits) : Cardinality(Commits[k].pending) >= 2 /\ WokeSome(k)

\* ------------------------------------------------------------------ C15
\* The points of a run where the pending set is looked at: after every set()
\* call (the slot written), before and after every commit (every slot), and
\* in the state an operation leaves (every slot).
WritesOf(k, i) == Commits[k].writes[i]
SlotsOf(k) == 1..Len(Commits[k].currBefore)
Differs(i) == slots[i].next # slots[i].curr

\* C15 (as stated): a slot is in the pending set if and only if its next value
\* differs from its current value; the pending set is empty after a commit.
C15_AsStated ==
    /\ Running => \A i \in 1..Len(slots) : i \in pending <=> Differs(i)
    /\ lastOp = "advance" =>
          \A k \in 1..Len(Commits) :
              /\ Commits[k].pendingLeft = {}
              /\ \A i \in SlotsOf(k) :
                    /\ i \in Commits[k].pending
                          <=> Commits[k].nextBefore[i] # Commits[k].currBefore[i]
                    /\ \A n \in 1..Len(WritesOf(k, i)) :
                          WritesOf(k, i)[n].pendingAfter
                              <=> WritesOf(k, i)[n].nextAfter # WritesOf(k, i)[n].currAfter

\* C15 (amended): a slot whose next value differs from its current value is in
\* the pending set, and a slot in the pending set has been written since the
\* last commit; a pending slot may have next equal to current (written away
\* and back).  The pending set is empty, and next equals current in every
\* slot, after every commit and after reset().
C15_PendingCoversDifferences ==
    /\ Running => pending = {} /\ \A i \in 1..Len(slots) : ~Differs(i)
    /\ lastOp = "advance" =>
          \A k \in 1..Len(Commits) :
              /\ Commits[k].pendingLeft = {}
              /\ Commits[k].nextAfter = Commits[k].currAfter
              /\ \A i \in SlotsOf(k) :
                    /\ Commits[k].nextBefore[i] # Commits[k].currBefore[i]
                          => i \in Commits[k].pending
                    /\ i \in Commits[k].pending =>
                          \E n \in 1..Len(WritesOf(k, i)) :
                              WritesOf(k, i)[n].nextAfter # WritesOf(k, i)[n].nextBefore
                    /\ \A n \in 1..Len(WritesOf(k, i)) :
                          /\ WritesOf(k, i)[n].nextAfter # WritesOf(k, i)[n].currAfter
                                => WritesOf(k, i)[n].pendingAfter
                          /\ WritesOf(k, i)[n].pendingBefore => WritesOf(k, i)[n].pendingAfter

C15_Witness ==
    /\ Returned
    /\ \E k \in 1..Len(Commits) : \E i \in Commits[k].pending :
          /\ Commits[k].nextBefore[i] = Commits[k].currBefore[i]
          /\ Len(WritesOf(k, i)) >= 2

\* ------------------------------------------------------------------ C16
\* The wait table handed to _Timeline.advance by the last advance(), and the
\* processes registered at its minimum deadline.
Waiting == DOMAIN lastStep.stepped.deadlines
Nearest ==
    {p \in Waiting : \A q \in Waiting :
        lastStep.stepped.deadlines[p] <= lastStep.stepped.deadlines[q]}
RunnableIn(W) == {p \in DOMAIN W.procs : W.procs[p].runnable}

\* C16: with no zero-delay waiter, _Timeline.advance on a non-empty wait table
\* makes runnable exactly the processes at the minimum deadline, removes
\* exactly their registrations, sets now to that deadline and returns true;
\* on an empty wait table it returns false and changes nothing.
C16_TimelineAdvance ==
    (Returned /\ lastStep.stepped.settled = {}) =>
        IF Waiting # {}
        THEN /\ lastStep.woke
             /\ \A p \in Nearest : lastStep.final.now = lastStep.stepped.deadlines[p]
             /\ RunnableIn(lastStep.final) = RunnableIn(lastStep.stepped) \cup Nearest
             /\ lastStep.final.deadlines = Drop(lastStep.stepped.deadlines, Nearest)
        ELSE /\ ~lastStep.woke
             /\ lastStep.final.now = lastStep.stepped.now
             /\ RunnableIn(lastStep.final) = RunnableIn(lastStep.stepped)
             /\ lastStep.final.deadlines = <<>>

C16_Witness ==
    /\ Returned /\ lastStep.stepped.settled = {}
    /\ Waiting # Nearest /\ Nearest # {}
    /\ lastStep.final.now > lastStep.stepped.now

\* ------------------------------------------------------------------ C17
\* A registration of the wait table whose wake time is earlier than now.
Stale(W) == \E p \in DOMAIN W.deadlines : W.deadlines[p] # None /\ W.deadlines[p] < W.now

\* C17: without a reset(), now never decreases: not within a step, not in
\* _Timeline.advance, not in any other operation; a wait table holding a wake
\* time earlier than now makes advance fail (the assertion) and leaves now as
\* it is.
C17_MonotoneTime ==
    [][ /\ lastOp' # "reset" => now' >= now
        /\ lastOp' = "advance" =>
              /\ lastStep'.before.now = now
              /\ lastStep'.stepped.now = now
              /\ Stale(lastStep'.stepped) => (err' /\ now' = now) ]_vars

C17_Witness ==
    /\ lastOp = "advance" /\ err
    /\ Stale(lastStep.stepped)
    /\ lastStep.stepped.now > 0 /\ now = lastStep.stepped.now

\* ------------------------------------------------------------------ C19
StepReturned ==
    lastOp = "advance" /\ ~lastStep.stepped.err /\ ~lastStep.stepped.diverged
TimelineWoke == DOMAIN lastStep.stepped.deadlines \ DOMAIN lastStep.final.deadlines

\* C19: when _step returns the pending set is empty, next equals current in
\* every slot and no process is runnable; the processes runnable when
\* advance() returns, which are those the next step starts with, are the ones
\* _Timeline.advance woke.
C19_Quiescence ==
    /\ StepReturned =>
          /\ lastStep.stepped.pending = {}
          /\ \A i \in 1..Len(lastStep.stepped.slots) :
                lastStep.stepped.slots[i].next = lastStep.stepped.slots[i].curr
          /\ RunnableIn(lastStep.stepped) = {}
    /\ Returned =>
          /\ RunnableIn(lastStep.final) = TimelineWoke
          /\ {p \in DOMAIN procs : procs[p].runnable} = TimelineWoke

C19_Witness ==
    /\ Returned /\ Len(Commits) >= 3
    /\ RunnableIn(lastStep.before) # {}
    /\ TimelineWoke # {} /\ TimelineWoke # DOMAIN procs

\* ================================================================== recorder setup
\* The recorder's setup in detail (_NameExtractor, _VCDWriter.__init__, close
\* and the write_vcd scope), run on its own: the engine's part in it is the
\* list of attached recorders and the time stamps of its steps.
MaxScopes == 2
MaxSteps == 2

\* Strings are sequences of characters.
Bench == <<"b", "e", "n", "c", "h">>
Top == <<"t", "o", "p">>
Sub == <<"s", "u", "b">>
NoneStr == <<"N", "o", "n", "e">>
DigitChars == <<"0", "1", "2", "3", "4", "5", "6", "7", "8", "9">>

\* str(n) of a natural number.
RECURSIVE Decimal(_)
Decimal(n) ==
    IF n < 10 THEN <<DigitChars[n + 1]>>
    ELSE Decimal(n \div 10) \o <<DigitChars[(n % 10) + 1]>>

\* search(r'[ \t\r\n]', var_name)
HasWhitespaceSpaceOnly(name) == \E i \in 1..Len(name) : name[i] = " "
HasWhitespace(name) == \E i \in 1..Len(name) : name[i] \in {" ", "\t", "\r", "\n"}

\* The names the signals of a design may have: all clean (and equal), a space
\* in the first signal's name, a tab in the last signal's name.
NameChoices ==
    { [s \in Sigs |-> <<"x">>],
      [s \in Sigs |-> IF s = 1 THEN <<"a", " ", "b">> ELSE <<"x">>],
      [s \in Sigs |-> IF s = NSig THEN <<"y", "\t">> ELSE <<"x">>] }

\* A fragment: the clock domains it drives, the signals of its statements in
\* the order the walk meets them, and its subfragments with their names.
Fragment(domains, sigs, subfragments) ==
    [domains |-> domains, signals |-> sigs, subfragments |-> subfragments]
Named(fr, name) == [fragment |-> fr, unnamed |-> FALSE, name |-> name]
Unnamed(fr) == [fragment |-> fr, unnamed |-> TRUE, name |-> <<>>]

DesignChoices ==
    { \* flat
      Fragment(<<>>, <<1, 2>>, <<>>),
      \* signal 1 is used at the top and in a named subfragment
      Fragment(<<>>, <<1>>, <<Named(Fragment(<<>>, <<1, 2>>, <<>>), Sub)>>),
      \* two unnamed sibling subfragments, each with a signal of its own
      Fragment(<<>>, <<>>, <<Unnamed(Fragment(<<>>, <<1>>, <<>>)),
                            Unnamed(Fragment(<<>>, <<2>>, <<>>))>>),
      \* a clock domain, and signal 1 again below an unnamed subfragment
      Fragment(<<[clk |-> 2, rst |-> None]>>, <<1>>,
               <<Named(Fragment(<<>>, <<>>,
                                <<Unnamed(Fragment(<<>>, <<1>>, <<>>))>>), Sub)>>) }

\* _NameExtractor.names: signal -> set of hierarchical names, with the order
\* of insertion.  first and visited are bookkeeping: the alias of each signal
\* the walk met first, and the subfragments walked with the path given to each.
NoNames == [order |-> <<>>, of |-> <<>>, first |-> <<>>, visited |-> {}]

AddSignalName(N, hierarchy, signal) ==
    LET hierarchical_signal_name == Append(hierarchy, signalName[signal]) IN
    IF signal \notin DOMAIN N.of
    THEN [N EXCEPT !.order = Append(@, signal),
                   !.of = Put(@, signal, {hierarchical_signal_name}),
                   !.first = Put(@, signal, hierarchical_signal_name)]
    ELSE [N EXCEPT !.of[signal] = @ \cup {hierarchical_signal_name}]

RECURSIVE AddDomainNames(_, _, _, _)
AddDomainNames(N, hierarchy, domains, i) ==
    IF i > Len(domains) THEN N
    ELSE LET c == AddSignalName(N, hierarchy, domains[i].clk)
             r == IF domains[i].rst # None
                  THEN AddSignalName(c, hierarchy, domains[i].rst) ELSE c
         IN  AddDomainNames(r, hierarchy, domains, i + 1)

RECURSIVE AddStatementNames(_, _, _, _)
AddStatementNames(N, hierarchy, sigs, i) ==
    IF i > Len(sigs) THEN N
    ELSE AddStatementNames(AddSignalName(N, hierarchy, sigs[i]), hierarchy, sigs, i + 1)

\* f'U${subfragment_name}', evaluated where subfragment_name is None.
Placeholder(subfragment_index, subfragment) ==
    <<"U", "$">> \o (IF subfragment.unnamed THEN NoneStr ELSE subfragment.name)

\* _NameExtractor.__call__
RECURSIVE NameExtractor(_, _, _)
RECURSIVE WalkSubfragments(_, _, _, _)
WalkSubfragments(N, hierarchy, subfragments, i) ==
    IF i > Len(subfragments) THEN N
    ELSE LET subfragment_name ==
                 IF subfragments[i].unnamed THEN Placeholder(i - 1, subfragments[i])
                 ELSE subfragments[i].name
             V == [N EXCEPT !.visited = @ \cup
                      {[parent |-> hierarchy, index |-> i - 1,
                        unnamed |-> subfragments[i].unnamed,
                        signals |-> subfragments[i].fragment.signals,
                        path |-> Append(hierarchy, subfragment_name)]}]
         IN  WalkSubfragments(
                 NameExtractor(V, subfragments[i].fragment,
                               Append(hierarchy, subfragment_name)),
                 hierarchy, subfragments, i + 1)

NameExtractor(N, fr, hierarchy) ==
    LET d == AddDomainNames(N, hierarchy, fr.domains, 1)
        t == AddStatementNames(d, hierarchy, fr.signals, 1)
    IN  WalkSubfragments(t, hierarchy, fr.subfragments, 1)

\* ------------------------------------------------------------------ _VCDWriter.__init__
\* A file argument is "none" (None), "str" (a path, which __init__ opens) or
\* "file" (a file object of the caller's).
FileArgs == {"none", "str", "file"}

\* f'{var_name}${suffix}'
Suffixed(var_name, suffix) ==
    IF suffix = None THEN var_name ELSE var_name \o <<"$">> \o Decimal(suffix)

\* The `while True` loop around register_var / register_alias: a name already
\* used in the scope raises KeyError and the next suffix is tried.
RECURSIVE FreeSuffix(_, _, _, _)
FreeSuffix(used, var_scope, var_name, suffix) ==
    IF <<var_scope, Suffixed(var_name, suffix)>> \notin used THEN suffix
    ELSE FreeSuffix(used, var_scope, var_name, IF suffix = None THEN 1 ELSE suffix + 1)

\* The variable declared for a signal: a string for a decoder-backed signal,
\* a wire otherwise.
VarOf(signal, var_scope, name) ==
    [scope |-> var_scope, name |-> name,
     var_type |-> IF HasDecoder(signal) THEN "string" ELSE "wire",
     size |-> 1,
     init_bits |-> IF HasDecoder(signal) THEN None ELSE signalReset[signal],
     init_text |-> IF HasDecoder(signal) THEN DecodeToVcd(signalReset[signal]) ELSE <<>>]

\* The body of `for (*var_scope, var_name) in names` for one name.
RegisterName(Wr, signal, alias) ==
    LET var_scope == SubSeq(alias, 1, Len(alias) - 1)
        var_name  == alias[Len(alias)]
    IN  IF HasWhitespace(var_name) THEN [Wr EXCEPT !.raised = "NameError"]
        ELSE LET var_name_suffix ==
                     Suffixed(var_name, FreeSuffix(Wr.used, var_scope, var_name, None))
             IN  [Wr EXCEPT
                    !.used = @ \cup {<<var_scope, var_name_suffix>>},
                    !.vcd_vars = IF signal \in DOMAIN @ THEN @
                                 ELSE Put(@, signal, VarOf(signal, var_scope, var_name_suffix)),
                    !.aliases = IF signal \in DOMAIN Wr.vcd_vars
                                THEN @ \cup {[signal |-> signal, scope |-> var_scope,
                                              name |-> var_name_suffix]}
                                ELSE @,
                    !.gtkw_names = IF signal \in DOMAIN @ THEN @
                                   ELSE Put(@, signal, Append(var_scope, var_name_suffix))]

\* `for (*var_scope, var_name) in names`: names is a set, walked in every order.
RECURSIVE RegisterNames(_, _, _)
RegisterNames(Wr, signal, todo) ==
    IF Wr.raised # "None" \/ todo = {} THEN {Wr}
    ELSE UNION { RegisterNames(RegisterName(Wr, signal, alias), signal, todo \ {alias})
                 : alias \in todo }

\* `for signal, names in chain(signal_names.items(), trace_names.items())`
RECURSIVE RegisterSignals(_, _, _, _)
RegisterSignals(Wr, names, order, i) ==
    IF Wr.raised # "None" \/ i > Len(order) THEN {Wr}
    ELSE UNION { RegisterSignals(w, names, order, i + 1)
                 : w \in RegisterNames(Wr, order[i], names[order[i]]) }

\* trace_names, in the order of the traces.
RECURSIVE TraceOrder(_, _, _)
TraceOrder(known, traces, i) ==
    IF i > Len(traces) THEN <<>>
    ELSE IF traces[i] \in known THEN TraceOrder(known, traces, i + 1)
    ELSE <<traces[i]>> \o TraceOrder(known \cup {traces[i]}, traces, i + 1)

\* _VCDWriter.__init__: the set of its outcomes, each the writer object with
\* raised telling whether the constructor raised.  names, first and visited
\* are bookkeeping of what the name extractor returned.
VcdWriterNew(scope, vcd_file, gtkw_file, traces) ==
    LET N  == NameExtractor(NoNames, design, <<Bench, Top>>)
        to == TraceOrder(DOMAIN N.of, traces, 1)
        trace_names == [t \in {to[j] : j \in 1..Len(to)} |-> {<<Bench, signalName[t]>>}]
        all == [sg \in DOMAIN N.of \cup DOMAIN trace_names |->
                   IF sg \in DOMAIN N.of THEN N.of[sg] ELSE trace_names[sg]]
        Wr == [scope |-> scope, vcd_file |-> vcd_file, gtkw_file |-> gtkw_file,
               vcd_vars |-> <<>>, aliases |-> {}, used |-> {}, gtkw_names |-> <<>>,
               traces |-> traces, names |-> all, first |-> N.first,
               visited |-> N.visited, records |-> <<>>, closed_at |-> None,
               exited |-> FALSE, raised |-> "None"]
    IN  IF vcd_file = "none" THEN {Wr}
        ELSE RegisterSignals(Wr, all, N.order \o to, 1)

\* _VCDWriter.update on a writer of this kind.
VcdWriterUpdate(Wr, timestamp, signal, value) ==
    IF signal \notin DOMAIN Wr.vcd_vars THEN Wr
    ELSE [Wr EXCEPT !.records = Append(@,
             [timestamp |-> timestamp, signal |-> signal,
              bits |-> IF HasDecoder(signal) THEN None ELSE value,
              text |-> IF HasDecoder(signal) THEN DecodeToVcd(value) ELSE <<>>])]

\* _VCDWriter.close: raised is "AttributeError" when the view file asks for the
\* name of a log file that is None; closes are the files it closed.
VcdWriterClose(Wr, timestamp) ==
    IF Wr.gtkw_file # "none" /\ Wr.vcd_file = "none"
    THEN [writer |-> Wr, raised |-> "AttributeError", closes |-> {}]
    ELSE [writer |-> [Wr EXCEPT !.closed_at = IF Wr.vcd_file # "none" THEN timestamp ELSE @],
          raised |-> "None",
          closes |-> {r \in {"vcd", "gtkw"} :
                         (r = "vcd" /\ Wr.vcd_file # "none")
                         \/ (r = "gtkw" /\ Wr.gtkw_file # "none")}]

\* ------------------------------------------------------------------ the recording scope
\* The file behind a file argument: opened by _VCDWriter.__init__ for a path,
\* handed in open by the caller otherwise.
FileOf(scope, arg) ==
    [open |-> TRUE, scope |-> scope, by |-> IF arg = "str" THEN "write_vcd" ELSE "caller"]

OpenFiles(scope, vcd_file, gtkw_file) ==
    [h \in {<<scope, "vcd">> : x \in {1} \ {IF vcd_file = "none" THEN 1 ELSE 0}}
         \cup {<<scope, "gtkw">> : x \in {1} \ {IF gtkw_file = "none" THEN 1 ELSE 0}}
       |-> FileOf(scope, IF h[2] = "vcd" THEN vcd_file ELSE gtkw_file)]

Merge(f, g) == [x \in DOMAIN f \cup DOMAIN g |-> IF x \in DOMAIN g THEN g[x] ELSE f[x]]

\* The scopes whose body is running, innermost last.
ActiveScopes == {k \in 1..Len(vcd_writers) : ~vcd_writers[k].exited}
Innermost == CHOOSE k \in ActiveScopes : \A j \in ActiveScopes : j <= k

InitVcd ==
    /\ signalReset = [s \in Sigs |-> 0]
    /\ fragment = <<>>
    /\ now = 0 /\ deadlines = <<>> /\ signals = <<>> /\ slots = <<>> /\ pending = {}
    /\ procs = <<>> /\ vcd_writers = <<>> /\ err = FALSE /\ hung = FALSE
    /\ ret = "None" /\ lastStep = NoStep /\ nAdvance = 0 /\ lastOp = "init"
    /\ design \in DesignChoices
    /\ signalName \in NameChoices
    /\ files = <<>> /\ raised = "None" /\ nScopes = 0 /\ lastSetup = <<>>
    /\ PlansUnused

\* write_vcd up to its `yield`: the constructor runs before the try block; the
\* writer is attached only when the constructor returned.
WriteVcd(vcd_file, gtkw_file, traces) ==
    /\ nScopes < MaxScopes
    /\ \E Wr \in VcdWriterNew(nScopes + 1, vcd_file, gtkw_file, traces) :
          /\ files' = Merge(files, OpenFiles(nScopes + 1, vcd_file, gtkw_file))
          /\ raised' = Wr.raised
          /\ vcd_writers' = IF Wr.raised = "None" THEN Append(vcd_writers, Wr)
                            ELSE vcd_writers
          /\ lastSetup' = [vcd_file |-> vcd_file, gtkw_file |-> gtkw_file,
                           traces |-> traces, scope |-> nScopes + 1,
                           attached |-> vcd_writers, writer |-> Wr]
    /\ nScopes' = nScopes + 1
    /\ lastOp' = "write_vcd"
    /\ UNCHANGED <<design, signalName, planVars, signalReset, fragment, now, deadlines,
                   signals, slots, pending, procs, err, hung, ret, lastStep, nAdvance>>

\* An engine step in the body of a scope that changed one signal: _step hands
\* the change to every attached recorder, then time moves on.
RecordStep(signal, value) ==
    /\ ActiveScopes # {} /\ now < MaxSteps
    /\ vcd_writers' = [k \in 1..Len(vcd_writers) |->
                          VcdWriterUpdate(vcd_writers[k], now, signal, value)]
    /\ now' = now + 1
    /\ raised' = "None"
    /\ lastOp' = "step"
    /\ UNCHANGED <<design, signalName, files, nScopes, lastSetup, planVars, signalReset,
                   fragment, deadlines, signals, slots, pending, procs, err, hung, ret,
                   lastStep, nAdvance>>

\* Leaving the innermost scope, normally or by an exception of the body: the
\* finally block closes the writer and then removes it from the engine.
ScopeExit(abnormal) ==
    /\ ActiveScopes # {}
    /\ LET k == Innermost
           c == VcdWriterClose(vcd_writers[k], now)
       IN  IF c.raised = "None"
           THEN /\ files' = [h \in DOMAIN files |->
                                IF h[1] = vcd_writers[k].scope /\ h[2] \in c.closes
                                THEN [files[h] EXCEPT !.open = FALSE] ELSE files[h]]
                /\ vcd_writers' = [j \in 1..(Len(vcd_writers) - 1) |->
                                      IF j < k THEN vcd_writers[j] ELSE vcd_writers[j + 1]]
                /\ raised' = IF abnormal THEN "BodyError" ELSE "None"
           ELSE /\ files' = files
                /\ vcd_writers' = [vcd_writers EXCEPT ![k].exited = TRUE]
                /\ raised' = c.raised
    /\ lastOp' = "exit"
    /\ UNCHANGED <<design, signalName, nScopes, lastSetup, planVars, signalReset, fragment,
                   now, deadlines, signals, slots, pending, procs, err, hung, ret, lastStep,
                   nAdvance>>

RecorderTraces == {<<>>, <<NSig>>}
StepSignals == {1, NSig}

NextVcd ==
    \/ \E v \in FileArgs, g \in FileArgs, t \in RecorderTraces : WriteVcd(v, g, t)
    \/ \E sg \in StepSignals : RecordStep(sg, 1 - signalReset[sg])
    \/ \E abnormal \in BOOLEAN : ScopeExit(abnormal)

SpecVcd == InitVcd /\ [][NextVcd]_vars

\* ------------------------------------------------------------------ C11
ScopeRunning(scope) == \E k \in ActiveScopes : vcd_writers[k].scope = scope

\* C11: every file that write_vcd opened is closed once its scope is not
\* running any more, whether the scope was left normally, by an exception of
\* its body or by an exception of the recorder's setup.
C11_ScopedClose ==
    \A h \in DOMAIN files :
        (files[h].by = "write_vcd" /\ ~ScopeRunning(files[h].scope)) => ~files[h].open

\* ------------------------------------------------------------------ C12
\* A leaf name with a whitespace character.
Blank(name) == \E i \in 1..Len(name) : name[i] \in {" ", "\t", "\r", "\n"}
WhitespaceAsked ==
    lastOp = "write_vcd" /\ \E sg \in DOMAIN lastSetup.writer.names : Blank(signalName[sg])
Rejected ==
    /\ raised = "NameError"
    /\ vcd_writers = lastSetup.attached
    /\ lastSetup.writer.records = <<>>

\* C12 (as stated): a recording scope asked for a design or a trace list with
\* a whitespace leaf name raises the naming error, before the recorder is
\* attached and before any record is written, whatever outputs were asked for.
C12_AsStated == WhitespaceAsked => Rejected

\* C12 (amended): it does so whenever a log file was asked for, with or without
\* a view file; with no log file the setup checks no name, raises nothing and
\* attaches a recorder that has no variable.  No recorder of a design with a
\* whitespace leaf name ever holds a record.
C12_WhitespaceRejected ==
    /\ WhitespaceAsked =>
          IF lastSetup.vcd_file # "none" THEN Rejected
          ELSE /\ raised = "None"
               /\ vcd_writers = Append(lastSetup.attached, lastSetup.writer)
               /\ lastSetup.writer.vcd_vars = <<>>
    /\ \A k \in 1..Len(vcd_writers) :
          vcd_writers[k].records # <<>> =>
              \A sg \in DOMAIN vcd_writers[k].names : ~Blank(signalName[sg])

C12_Witness ==
    /\ WhitespaceAsked /\ Rejected
    /\ lastSetup.gtkw_file # "none" /\ lastSetup.traces # <<>>
    /\ lastSetup.attached # <<>> /\ lastSetup.attached[1].records # <<>>

\* ------------------------------------------------------------------ C18
ScopeOfName(alias) == SubSeq(alias, 1, Len(alias) - 1)

\* C18: of a signal with several aliases, the alias the hierarchy walk met
\* first is the primary variable and every other alias refers to it, in every
\* iteration order of the alias collection.
C18_FirstAliasPrimary ==
    \A k \in 1..Len(vcd_writers) :
        \A sg \in DOMAIN vcd_writers[k].vcd_vars \cap DOMAIN vcd_writers[k].first :
            /\ vcd_writers[k].vcd_vars[sg].scope = ScopeOfName(vcd_writers[k].first[sg])
            /\ Cardinality({a \in vcd_writers[k].aliases : a.signal = sg})
                   = Cardinality(vcd_writers[k].names[sg]) - 1

\* ------------------------------------------------------------------ C20
SignalsOf(v) == {v.signals[i] : i \in 1..Len(v.signals)}

\* C20: two distinct unnamed subfragments of one parent get distinct
\* placeholder names, so that signals of theirs with the same leaf name are
\* recorded under different hierarchy paths.
C20_DistinctPlaceholders ==
    \A k \in 1..Len(vcd_writers) : \A a, b \in vcd_writers[k].visited :
        (a.parent = b.parent /\ a.index # b.index /\ a.unnamed /\ b.unnamed) =>
            /\ a.path # b.path
            /\ \A sa \in SignalsOf(a), sb \in SignalsOf(b) :
                  (sa # sb /\ signalName[sa] = signalName[sb]) =>
                      vcd_writers[k].names[sa] \cap vcd_writers[k].names[sb] = {}

\* ================================================================== BuildPlan
\* BuildPlan of src/torii/build/run.py: two plans are built side by side and
\* compared by what their digest() feeds to the hasher.  A str is a sequence
\* of code points, bytes are a sequence of byte values.
MaxFiles == 2

PlanIds == {1, 2}

\* 'a', 'ab', 'b'
FilenameChoices == {<<97>>, <<97, 98>>, <<98>>}
\* 'c', 'bc' and the one-character str of code point 233, and the bytes b'c'
ContentChoices ==
    { [kind |-> "str", data |-> <<99>>], [kind |-> "str", data |-> <<98, 99>>],
      [kind |-> "str", data |-> <<233>>], [kind |-> "bytes", data |-> <<99>>] }
\* 's', 'cs'
ScriptChoices == {<<115>>, <<99, 115>>}

\* str.encode('utf-8') of one code point below 2048, and of a str.
Utf8(cp) == IF cp < 128 THEN <<cp>> ELSE <<192 + (cp \div 64), 128 + (cp % 64)>>
RECURSIVE Encode(_)
Encode(str) == IF str = <<>> THEN <<>> ELSE Utf8(Head(str)) \o Encode(Tail(str))

\* a < b for two str: by code points, a proper prefix first.
RECURSIVE StrLess(_, _)
StrLess(a, b) ==
    IF b = <<>> THEN FALSE
    ELSE IF a = <<>> THEN TRUE
    ELSE IF Head(a) # Head(b) THEN Head(a) < Head(b)
    ELSE StrLess(Tail(a), Tail(b))

\* sorted(self.files): the file names in ascending order.
RECURSIVE Sorted(_)
Sorted(S) ==
    IF S = {} THEN <<>>
    ELSE LET m == CHOOSE x \in S : \A y \in S \ {x} : StrLess(x, y)
         IN  <<m>> \o Sorted(S \ {m})

\* BuildPlan.__init__
NewPlan(script) == [script |-> script, files |-> <<>>]

\* self.files as a mapping, from the OrderedDict's entries.
Filenames(plan) == {plan.files[i].filename : i \in 1..Len(plan.files)}
ContentOf(plan, filename) ==
    LET i == CHOOSE j \in 1..Len(plan.files) : plan.files[j].filename = filename
    IN  plan.files[i].content

\* BuildPlan.digest: the bytes handed to hasher.update, one after the other.
RECURSIVE Updates(_, _, _)
Updates(plan, names, i) ==
    IF i > Len(names) THEN <<>>
    ELSE LET content == ContentOf(plan, names[i])
         IN  Encode(names[i])
             \o (IF content.kind = "str" THEN Encode(content.data) ELSE content.data)
             \o Updates(plan, names, i + 1)

Digest(plan) == Updates(plan, Sorted(Filenames(plan)), 1) \o Encode(plan.script)

InitPlan ==
    /\ signalReset = [s \in Sigs |-> 0]
    /\ fragment = <<>>
    /\ now = 0 /\ deadlines = <<>> /\ signals = <<>> /\ slots = <<>> /\ pending = {}
    /\ procs = <<>> /\ vcd_writers = <<>> /\ err = FALSE /\ hung = FALSE
    /\ ret = "None" /\ lastStep = NoStep /\ nAdvance = 0 /\ lastOp = "init"
    /\ RecorderUnused
    /\ \E s \in [PlanIds -> ScriptChoices] : plans = [k \in PlanIds |-> NewPlan(s[k])]

\* BuildPlan.add_file: the assertion fails for a file name the plan has.
AddFile(k, filename, content) ==
    /\ Len(plans[k].files) < MaxFiles
    /\ IF filename \in Filenames(plans[k])
       THEN /\ raised' = "AssertionError"
            /\ plans' = plans
       ELSE /\ raised' = "None"
            /\ plans' = [plans EXCEPT ![k].files =
                             Append(@, [filename |-> filename, content |-> content])]
    /\ lastOp' = "add_file"
    /\ UNCHANGED <<design, signalName, files, nScopes, lastSetup, signalReset, fragment,
                   now, deadlines, signals, slots, pending, procs, vcd_writers, err, hung,
                   ret, lastStep, nAdvance>>

NextPlan ==
    \E k \in PlanIds, f \in FilenameChoices, c \in ContentChoices : AddFile(k, f, c)

SpecPlan == InitPlan /\ [][NextPlan]_vars

\* ------------------------------------------------------------------ C13
\* The files of a plan as (name, bytes written): a str content and a bytes
\* content with the same encoding are the same file.
Bytes(content) == IF content.kind = "str" THEN Encode(content.data) ELSE content.data
Entries(plan) ==
    {<<plan.files[i].filename, Bytes(plan.files[i].content)>> : i \in 1..Len(plan.files)}
SamePlan(p, q) == p.script = q.script /\ Entries(p) = Entries(q)

\* C13: what digest() feeds to the hasher is the same for two plans with the
\* same files and script whatever the order the files were added in, and
\* differs for two plans that differ in a file name, a content or the script.
C13_DigestIdentifies ==
    \A k, j \in PlanIds :
        /\ SamePlan(plans[k], plans[j]) => Digest(plans[k]) = Digest(plans[j])
        /\ ~SamePlan(plans[k], plans[j]) => Digest(plans[k]) # Digest(plans[j])

====
